---- MODULE Spec2Model ----
(***************************************************************************)
(* A model of kitchen_sync's MessagePack Unpacker                          *)
(* (src/message_pack/unpack.h).                                            *)
(*                                                                         *)
(* The Unpacker pulls bytes from a file descriptor with ::read and keeps   *)
(* one byte of lookahead (have_next_byte / next_byte).  One step of the    *)
(* model is one ::read system call together with the deterministic code    *)
(* that runs up to the next ::read call (or up to the return or the throw  *)
(* of the API call in flight).                                             *)
(*                                                                         *)
(* Fixed-width integers are byte sequences, most significant byte first,   *)
(* of the width of their C type: a cast truncates or sign/zero-extends.    *)
(***************************************************************************)
EXTENDS Integers, Sequences, FiniteSets, TLC

VARIABLES
    stream,          \* the bytes the file descriptor supplies, in order
    host_le,         \* TRUE on a little-endian host, FALSE on a big-endian one
    pos,             \* bytes ::read has taken from the descriptor so far
    have_next_byte,  \* Unpacker::have_next_byte
    next_byte,       \* Unpacker::next_byte
    pc,              \* "idle": no call in flight; "read": at ::read (line 118)
    op,              \* the API call in flight (or the last one)
    got,             \* bytes the call in flight has written to its buffers
    bytes,           \* read_raw_bytes: the local `bytes`, still to be read
    io,              \* what the call in flight met: interruptions, short reads
    result,          \* outcome of the last API call that ended
    delivered,       \* history: every byte read_raw_bytes wrote to a caller
    peek_val         \* history: the byte peek() returned, until one is delivered

vars == <<stream, host_le, pos, have_next_byte, next_byte, pc, op, got, bytes,
          io, result, delivered, peek_val>>

-----------------------------------------------------------------------------
(* Bounds of the model.                                                    *)

\* the largest n of a client's read_raw_bytes(buf, n) call
MaxRawLen == 3

\* the length of the plain stream
PlainLen == 4

-----------------------------------------------------------------------------
(* type_codes.h: the wire tags.                                            *)

MSGPACK_POSITIVE_FIXNUM_MIN == 0
MSGPACK_POSITIVE_FIXNUM_MAX == 127
MSGPACK_FIXMAP_MIN == 128
MSGPACK_FIXMAP_MAX == 143
MSGPACK_FIXARRAY_MIN == 144
MSGPACK_FIXARRAY_MAX == 159
MSGPACK_FIXRAW_MIN == 160
MSGPACK_FIXRAW_MAX == 191
MSGPACK_NIL == 192
MSGPACK_FALSE == 194
MSGPACK_TRUE == 195
MSGPACK_FLOAT == 202
MSGPACK_DOUBLE == 203
MSGPACK_UINT8 == 204
MSGPACK_UINT16 == 205
MSGPACK_UINT32 == 206
MSGPACK_UINT64 == 207
MSGPACK_INT8 == 208
MSGPACK_INT16 == 209
MSGPACK_INT32 == 210
MSGPACK_INT64 == 211
MSGPACK_RAW16 == 218
MSGPACK_RAW32 == 219
MSGPACK_ARRAY16 == 220
MSGPACK_ARRAY32 == 221
MSGPACK_MAP16 == 222
MSGPACK_MAP32 == 223
MSGPACK_NEGATIVE_FIXNUM_MIN == 224
MSGPACK_NEGATIVE_FIXNUM_MAX == 255

Byte == 0..255

-----------------------------------------------------------------------------
(* C types and values.                                                     *)

UnsignedTypes == {"uint8_t", "uint16_t", "uint32_t", "uint64_t"}
SignedTypes == {"int8_t", "int16_t", "int32_t", "int64_t"}
IntTypes == UnsignedTypes \cup SignedTypes
FloatTypes == {"float", "double"}

\* sizeof(T)
SizeOf(T) ==
    CASE T \in {"uint8_t", "int8_t", "bool"} -> 1
      [] T \in {"uint16_t", "int16_t"} -> 2
      [] T \in {"uint32_t", "int32_t", "float"} -> 4
      [] T \in {"uint64_t", "int64_t", "double"} -> 8

Reverse(s) == [k \in 1..Len(s) |-> s[Len(s) + 1 - k]]

Fill(b, n) == [k \in 1..n |-> b]

AllZero(v) == \A k \in 1..Len(v) : v[k] = 0

\* The value of an object of a multi-byte type whose memory holds `mem`
\* (lowest address first), most significant byte first.
NativeValue(mem, le) == IF le THEN Reverse(mem) ELSE mem

\* a ntoh* that returns its argument on every host
ntoh_Identity(v, le) == v

\* ntohs / ntohl / ntohll: network (big-endian) to host order, on a value.
\* On a little-endian host the bytes are swapped, on a big-endian one kept.
ntoh(v, le) == IF le THEN Reverse(v) ELSE v

\* The conversion (T) x of a value x of integer type S, or of bool.
\* Narrowing keeps the low-order bytes; widening extends with the sign of a
\* signed S and with zeros otherwise; (bool) x is x != 0.  A conversion from or
\* to a floating type is kept as the pair of the source value and the types.
Cast(T, S, v) ==
    IF T \in FloatTypes \/ S \in FloatTypes
    THEN [from |-> S, to |-> T, bits |-> v]
    ELSE IF T = "bool" THEN (IF AllZero(v) THEN <<0>> ELSE <<1>>)
    ELSE IF SizeOf(T) <= Len(v) THEN SubSeq(v, Len(v) - SizeOf(T) + 1, Len(v))
    ELSE Fill(IF S \in SignedTypes /\ v[1] >= 128 THEN 255 ELSE 0,
              SizeOf(T) - Len(v)) \o v

\* The unsigned number a value denotes (used for lengths; below 2^31).
RECURSIVE ToNat(_)
ToNat(v) == IF v = <<>> THEN 0 ELSE ToNat(SubSeq(v, 1, Len(v) - 1)) * 256 + v[Len(v)]

\* The w-byte two's-complement representation of a (small) integer n.
RECURSIVE Repr(_, _)
Repr(n, w) == IF w = 0 THEN <<>> ELSE Repr(n \div 256, w - 1) \o <<n % 256>>

-----------------------------------------------------------------------------
(* to_string.h: the decimal text of an int.                                *)

Digit(d) ==
    CASE d = 0 -> "0" [] d = 1 -> "1" [] d = 2 -> "2" [] d = 3 -> "3"
      [] d = 4 -> "4" [] d = 5 -> "5" [] d = 6 -> "6" [] d = 7 -> "7"
      [] d = 8 -> "8" [] d = 9 -> "9"

RECURSIVE to_string(_)
to_string(n) == IF n < 10 THEN Digit(n) ELSE to_string(n \div 10) \o Digit(n % 10)

-----------------------------------------------------------------------------
(* The decode functions, as functions of the bytes `bs` the call has        *)
(* obtained so far: each starts at index i of bs and either returns (ok),  *)
(* throws (error), or stands at a read_raw_bytes call for `need` bytes     *)
(* that bs does not hold yet (need).  `calls` logs the value decodes a     *)
(* container decode makes, in the order it makes them.                     *)

Ok(v, j, log) ==
    [st |-> "ok", val |-> v, at |-> j, need |-> 0, leader |-> -1, msg |-> <<>>,
     calls |-> log]

Need(n, j) ==
    [st |-> "need", val |-> <<>>, at |-> j, need |-> n, leader |-> -1,
     msg |-> <<>>, calls |-> <<>>]

\* throw unpacker_error("Don't know how to convert MessagePack type " +
\*                      to_string((int)leader) + what)
Err(l, what, j) ==
    [st |-> "error", val |-> <<>>, at |-> j, need |-> 0, leader |-> l,
     msg |-> <<"Don't know how to convert MessagePack type ", to_string(l), what>>,
     calls |-> <<>>]

\* whether bs holds the n bytes of a read_raw_bytes(n) that starts at i
Have(bs, i, n) == i + n - 1 <= Len(bs)

\* read_raw<S>() at i: the object's memory is the next sizeof(S) stream bytes
read_raw(S, bs, i, le) == NativeValue(SubSeq(bs, i, i + SizeOf(S) - 1), le)

\* next_nil that reads the byte after the tag before it tests the tag
next_nil_ReadsAhead(bs, i) ==
    IF ~Have(bs, i, 2) THEN Need(2, i)
    ELSE LET leader == bs[i] IN
         IF leader # MSGPACK_NIL THEN Err(leader, " to nil", i + 2)
         ELSE Ok(<<>>, i + 2, <<>>)

next_nil(bs, i) ==
    IF ~Have(bs, i, 1) THEN Need(1, i)
    ELSE LET leader == bs[i] IN
         IF leader # MSGPACK_NIL THEN Err(leader, " to nil", i + 1)
         ELSE Ok(<<>>, i + 1, <<>>)

\* leader & 15
FixLength(leader) == leader % 16

\* next_array_length without the default case: length 0 for any other tag
next_array_length_NoDefault(bs, i, le) ==
    IF ~Have(bs, i, 1) THEN Need(1, i)
    ELSE LET leader == bs[i] IN
         IF leader >= MSGPACK_FIXARRAY_MIN /\ leader <= MSGPACK_FIXARRAY_MAX
         THEN Ok(FixLength(leader), i + 1, <<>>)
         ELSE Ok(0, i + 1, <<>>)

next_array_length(bs, i, le) ==
    IF ~Have(bs, i, 1) THEN Need(1, i)
    ELSE LET leader == bs[i] IN
         IF leader >= MSGPACK_FIXARRAY_MIN /\ leader <= MSGPACK_FIXARRAY_MAX
         THEN Ok(FixLength(leader), i + 1, <<>>)
         ELSE CASE leader = MSGPACK_ARRAY16 ->
                     IF ~Have(bs, i + 1, 2) THEN Need(2, i + 1)
                     ELSE Ok(ToNat(ntoh(read_raw("uint16_t", bs, i + 1, le), le)),
                             i + 3, <<>>)
                [] leader = MSGPACK_ARRAY32 ->
                     IF ~Have(bs, i + 1, 4) THEN Need(4, i + 1)
                     ELSE Ok(ToNat(ntoh(read_raw("uint32_t", bs, i + 1, le), le)),
                             i + 5, <<>>)
                [] OTHER -> Err(leader, " to array", i + 1)

\* next_map_length whose fixmap range starts after MSGPACK_FIXMAP_MIN
next_map_length_OffByOne(bs, i, le) ==
    IF ~Have(bs, i, 1) THEN Need(1, i)
    ELSE LET leader == bs[i] IN
         IF leader > MSGPACK_FIXMAP_MIN /\ leader <= MSGPACK_FIXMAP_MAX
         THEN Ok(FixLength(leader), i + 1, <<>>)
         ELSE Err(leader, " to map", i + 1)

next_map_length(bs, i, le) ==
    IF ~Have(bs, i, 1) THEN Need(1, i)
    ELSE LET leader == bs[i] IN
         IF leader >= MSGPACK_FIXMAP_MIN /\ leader <= MSGPACK_FIXMAP_MAX
         THEN Ok(FixLength(leader), i + 1, <<>>)
         ELSE CASE leader = MSGPACK_MAP16 ->
                     IF ~Have(bs, i + 1, 2) THEN Need(2, i + 1)
                     ELSE Ok(ToNat(ntoh(read_raw("uint16_t", bs, i + 1, le), le)),
                             i + 3, <<>>)
                [] leader = MSGPACK_MAP32 ->
                     IF ~Have(bs, i + 1, 4) THEN Need(4, i + 1)
                     ELSE Ok(ToNat(ntoh(read_raw("uint32_t", bs, i + 1, le), le)),
                             i + 5, <<>>)
                [] OTHER -> Err(leader, " to map", i + 1)

\* The opcodes of operator>>(Unpacker&, T&) that read a payload: the type
\* read_raw is instantiated with, whether a ntoh* call converts the result,
\* and the type of the expression that is then cast to T (ntohs, ntohl and
\* ntohll return uint16_t, uint32_t and uint64_t).
PayloadCase(leader) ==
    CASE leader = MSGPACK_FLOAT  -> [read |-> "float",    swap |-> FALSE, as |-> "float"]
      [] leader = MSGPACK_DOUBLE -> [read |-> "double",   swap |-> FALSE, as |-> "double"]
      [] leader = MSGPACK_UINT8  -> [read |-> "uint8_t",  swap |-> FALSE, as |-> "uint8_t"]
      [] leader = MSGPACK_UINT16 -> [read |-> "uint16_t", swap |-> TRUE,  as |-> "uint16_t"]
      [] leader = MSGPACK_UINT32 -> [read |-> "uint32_t", swap |-> TRUE,  as |-> "uint32_t"]
      [] leader = MSGPACK_UINT64 -> [read |-> "uint64_t", swap |-> TRUE,  as |-> "uint64_t"]
      [] leader = MSGPACK_INT8   -> [read |-> "int8_t",   swap |-> FALSE, as |-> "int8_t"]
      [] leader = MSGPACK_INT16  -> [read |-> "int16_t",  swap |-> TRUE,  as |-> "uint16_t"]
      [] leader = MSGPACK_INT32  -> [read |-> "int32_t",  swap |-> TRUE,  as |-> "uint32_t"]
      [] leader = MSGPACK_INT64  -> [read |-> "int64_t",  swap |-> TRUE,  as |-> "uint64_t"]

PayloadOpcodes ==
    {MSGPACK_FLOAT, MSGPACK_DOUBLE, MSGPACK_UINT8, MSGPACK_UINT16, MSGPACK_UINT32,
     MSGPACK_UINT64, MSGPACK_INT8, MSGPACK_INT16, MSGPACK_INT32, MSGPACK_INT64}

\* obj = (T) leader, for a positive fixnum
PositiveFixnum(T, leader) == Cast(T, "uint8_t", <<leader>>)

\* a negative fixnum converted without the (int8_t) cast
NegativeFixnum_NoInt8(T, leader) == Cast(T, "uint8_t", <<leader>>)

\* obj = (T) (int8_t) leader, for a negative fixnum
NegativeFixnum(T, leader) == Cast(T, "int8_t", <<leader>>)

\* operator>>(Unpacker&, T&) for a numeric or boolean T
ReadScalar(T, bs, i, le) ==
    IF ~Have(bs, i, 1) THEN Need(1, i)
    ELSE LET leader == bs[i] IN
         IF leader >= MSGPACK_POSITIVE_FIXNUM_MIN /\ leader <= MSGPACK_POSITIVE_FIXNUM_MAX
         THEN Ok(PositiveFixnum(T, leader), i + 1, <<>>)
         ELSE IF leader >= MSGPACK_NEGATIVE_FIXNUM_MIN /\ leader <= MSGPACK_NEGATIVE_FIXNUM_MAX
         THEN Ok(NegativeFixnum(T, leader), i + 1, <<>>)
         ELSE CASE leader = MSGPACK_FALSE -> Ok(Cast(T, "bool", <<0>>), i + 1, <<>>)
                [] leader = MSGPACK_TRUE -> Ok(Cast(T, "bool", <<1>>), i + 1, <<>>)
                [] leader \in PayloadOpcodes ->
                     LET c == PayloadCase(leader)
                         n == SizeOf(c.read)
                     IN  IF ~Have(bs, i + 1, n) THEN Need(n, i + 1)
                         ELSE LET raw == read_raw(c.read, bs, i + 1, le)
                                  v == IF c.swap THEN ntoh(raw, le) ELSE raw
                              IN  Ok(Cast(T, c.as, v), i + 1 + n, <<>>)
                [] OTHER -> Err(leader, " to type " \o T, i + 1)

\* a resize that leaves the string as long as it was
Resize_NoResize(prev, n) == prev

\* obj.resize(n) on a string holding `prev`: the first n bytes kept, zeros added
Resize(prev, n) == [k \in 1..n |-> IF k <= Len(prev) THEN prev[k] ELSE 0]

\* read_raw_bytes((uint8_t *)obj.data(), obj.size()) at j, obj resized to n
StringBody(bs, j, n) ==
    IF ~Have(bs, j, n) THEN Need(n, j)
    ELSE Ok(SubSeq(bs, j, j + n - 1), j + n, <<>>)

\* operator>>(Unpacker&, std::string&)
ReadString(bs, i, le, prev) ==
    IF ~Have(bs, i, 1) THEN Need(1, i)
    ELSE LET leader == bs[i] IN
         IF leader >= MSGPACK_FIXRAW_MIN /\ leader <= MSGPACK_FIXRAW_MAX
         THEN StringBody(bs, i + 1, Len(Resize(prev, leader % 32)))
         ELSE CASE leader = MSGPACK_RAW16 ->
                     IF ~Have(bs, i + 1, 2) THEN Need(2, i + 1)
                     ELSE StringBody(bs, i + 3,
                            Len(Resize(prev, ToNat(ntoh(read_raw("uint16_t", bs, i + 1, le), le)))))
                [] leader = MSGPACK_RAW32 ->
                     IF ~Have(bs, i + 1, 4) THEN Need(4, i + 1)
                     ELSE StringBody(bs, i + 5,
                            Len(Resize(prev, ToNat(ntoh(read_raw("uint32_t", bs, i + 1, le), le)))))
                [] OTHER -> Err(leader, " to string", i + 1)

\* an insert that keeps the entry a key already has
MapPut_KeepFirst(obj, key, val) ==
    IF \E p \in obj : p[1] = key THEN obj ELSE obj \cup {<<key, val>>}

\* obj[key] = val on a std::map, held as a set of <<key, value>> pairs
MapPut(obj, key, val) == {p \in obj : p[1] # key} \cup {<<key, val>>}

\* a call the container decode makes: the element type and where it starts
Call(T, i) == [T |-> T, at |-> i]

\* The types are sequences of tokens: <<"int32_t">>, <<"string">>,
\* <<"vector">> \o T, <<"map", K>> \o V with K a one-token type.
IsVector(T) == T[1] = "vector"
IsMap(T) == T[1] = "map"
IsString(T) == T[1] = "string"
ElementType(T) == Tail(T)
KeyType(T) == <<T[2]>>
MappedType(T) == SubSeq(T, 3, Len(T))
\* a default-constructed T (the `T value;` of next<T>())
Default(T) == IF IsMap(T) THEN {} ELSE <<>>

RECURSIVE Extract(_, _, _, _, _)
RECURSIVE VectorLoop(_, _, _, _, _, _, _)
RECURSIVE MapLoop(_, _, _, _, _, _, _)

\* T next(): T value; *this >> value; return value;
next(T, bs, i, le) == Extract(T, bs, i, le, Default(T))

\* while (array_length--) obj.push_back(unpacker.next<T>());
VectorLoop(T, bs, i, le, array_length, obj, log) ==
    IF array_length = 0 THEN Ok(obj, i, log)
    ELSE LET e == next(T, bs, i, le)
             log2 == (log \o <<Call(T, i)>>) \o e.calls
         IN  IF e.st # "ok" THEN [e EXCEPT !.calls = log2]
             ELSE VectorLoop(T, bs, e.at, le, array_length - 1, Append(obj, e.val), log2)

\* a vector decode without the obj.clear()
vector_clear_Missing(obj) == obj

\* obj.clear() on a std::vector
vector_clear(obj) == SubSeq(obj, 1, 0)

\* obj.reserve(n): capacity only, the content stays
reserve(obj, n) == obj

\* operator>>(Unpacker&, std::vector<T>&), obj holding `prev` on entry
ReadVector(T, bs, i, le, prev) ==
    LET len == next_array_length(bs, i, le) IN
    IF len.st # "ok" THEN len
    ELSE VectorLoop(T, bs, len.at, le, len.val, reserve(vector_clear(prev), len.val), <<>>)

\* while (map_length--) { K key = next<K>(); V val = next<V>(); obj[key] = val; }
MapLoop(T, bs, i, le, map_length, obj, log) ==
    IF map_length = 0 THEN Ok(obj, i, log)
    ELSE LET key == next(KeyType(T), bs, i, le)
             log1 == (log \o <<Call(KeyType(T), i)>>) \o key.calls
         IN  IF key.st # "ok" THEN [key EXCEPT !.calls = log1]
             ELSE LET val == next(MappedType(T), bs, key.at, le)
                      log2 == (log1 \o <<Call(MappedType(T), key.at)>>) \o val.calls
                  IN  IF val.st # "ok" THEN [val EXCEPT !.calls = log2]
                      ELSE MapLoop(T, bs, val.at, le, map_length - 1,
                                   MapPut(obj, key.val, val.val), log2)

\* obj.clear() on a std::map
map_clear(obj) == obj \ obj

\* operator>>(Unpacker&, std::map<K, V>&), obj holding `prev` on entry
ReadMap(T, bs, i, le, prev) ==
    LET len == next_map_length(bs, i, le) IN
    IF len.st # "ok" THEN len
    ELSE MapLoop(T, bs, len.at, le, len.val, reserve(map_clear(prev), len.val), <<>>)

\* unpacker >> obj for an obj of type T: the overload the compiler selects
Extract(T, bs, i, le, prev) ==
    CASE IsVector(T) -> ReadVector(ElementType(T), bs, i, le, prev)
      [] IsMap(T) -> ReadMap(T, bs, i, le, prev)
      [] IsString(T) -> ReadString(bs, i, le, prev)
      [] OTHER -> ReadScalar(T[1], bs, i, le)

-----------------------------------------------------------------------------
(* The Unpacker as a state machine.                                        *)

ScalarTypes == (IntTypes \cup {"bool"}) \cup FloatTypes

\* the T of the unpacker >> obj / next<T>() calls the model makes
DecodeTypes ==
    {<<T>> : T \in ScalarTypes}
    \cup {<<"string">>, <<"vector", "int32_t">>, <<"vector", "vector", "int8_t">>,
          <<"map", "string", "int32_t">>, <<"map", "uint8_t", "uint8_t">>,
          <<"vector", "map", "uint8_t", "uint8_t">>}

\* what the destination of unpacker >> obj may hold on entry: a
\* default-constructed object (next<T>()), or earlier content
PrevContents(T) ==
    CASE IsVector(T) -> {<<>>, <<<<9>>>>}
      [] IsMap(T) -> {{}, {<<<<9>>, <<9>>>>}}
      [] IsString(T) -> {<<>>, <<122, 122>>}
      [] OTHER -> {<<>>}

\* A stream of PlainLen bytes that are no encoding of interest: 1, 2, 3, ...
PlainStream == [k \in 1..PlainLen |-> k]

\* The streams the descriptor may supply: encodings of values of every family.
Streams ==
    { PlainStream, <<192, 192, 5>>, <<193, 255>>, <<128, 255>>, <<127, 128>>,
      <<146, 1, 2>>, <<144, 7>>, <<220, 0, 2, 1, 2>>, <<221, 0, 0, 0, 1, 5>>,
      <<146, 145, 255, 144>>,
      <<129, 161, 107, 1>>, <<130, 1, 5, 1, 6>>, <<130, 161, 107, 1, 161, 107, 2>>,
      <<222, 0, 1, 2, 3>>, <<223, 0, 0, 0, 1, 2, 3>>,
      <<209, 255, 255>>, <<210, 255, 255, 255, 255>>, <<208, 128>>,
      <<211, 255, 255, 255, 255, 255, 255, 255, 254>>, <<209, 1, 2>>,
      <<208, 255>> }

\* Every tag byte, alone on the stream.
TagStreams == {<<t>> : t \in Byte}

\* Booleans, unsigned integers and floats with their payloads: false, true,
\* 200, 256, 65536, 256 (in 8 bytes), 1.0f, 1.0.
ScalarStreams ==
    { <<194, 7>>, <<195, 7>>, <<204, 200>>, <<205, 1, 0>>, <<206, 0, 1, 0, 0>>,
      <<207, 0, 0, 0, 0, 0, 0, 1, 0>>, <<202, 63, 128, 0, 0>>,
      <<203, 63, 240, 0, 0, 0, 0, 0, 0>> }

\* Strings, and values one after the other: "foo"; "" 5; "hi" (raw16);
\* "x" 7 (raw32); "" nil (raw16); 1 "k" [1, 2]; nil -1 {"k": 1}; [{1: 5}] 6.
ValueStreams ==
    { <<163, 102, 111, 111>>, <<160, 5>>, <<218, 0, 2, 104, 105>>,
      <<219, 0, 0, 0, 1, 120, 7>>, <<218, 0, 0, 192>>,
      <<1, 161, 107, 146, 1, 2>>, <<192, 255, 129, 161, 107, 1>>,
      <<145, 129, 1, 5, 6>> }

PeekFns == {"peek", "next_is_nil"}

\* A call: the function, its template argument T, its count n, what its
\* destination held, and where the Unpacker stood when it was made.
NoOp == [fn |-> "none", T |-> <<>>, n |-> 0, prev |-> <<>>, start |-> 0, hnb |-> FALSE]

Clean == [eintr |-> FALSE, short |-> FALSE]

NoResult ==
    [op |-> NoOp, st |-> "none", val |-> <<>>, used |-> 0, msg |-> <<>>,
     calls |-> <<>>, io |-> Clean]

\* the stream offset of the next byte no caller has been given yet
LogicalPos == pos - (IF have_next_byte THEN 1 ELSE 0)

\* peek that returns 0, not next_byte, when the slot is full
peek_Forgets(g, hnb, nb) ==
    IF ~hnb
    THEN (IF ~Have(g, 1, 1) THEN Need(1, 1) ELSE Ok(g[1], 2, <<>>))
    ELSE Ok(0, 1, <<>>)

\* uint8_t peek(): g is what its read_raw_bytes(&next_byte, 1) has stored
peek(g, hnb, nb) ==
    IF ~hnb
    THEN (IF ~Have(g, 1, 1) THEN Need(1, 1) ELSE Ok(g[1], 2, <<>>))
    ELSE Ok(nb, 1, <<>>)

\* next_is_nil that takes false for the nil tag
next_is_nil_false(g, hnb, nb) ==
    LET p == peek(g, hnb, nb) IN
    IF p.st # "ok" THEN p ELSE [p EXCEPT !.val = (p.val = MSGPACK_FALSE)]

\* bool next_is_nil(): peek() == MSGPACK_NIL
next_is_nil(g, hnb, nb) ==
    LET p == peek(g, hnb, nb) IN
    IF p.st # "ok" THEN p ELSE [p EXCEPT !.val = (p.val = MSGPACK_NIL)]

\* read_raw_bytes that empties the slot without handing the byte out
read_raw_bytes_head_drops(n, hnb, nb) ==
    [buf |-> <<>>, bytes |-> n, have |-> IF n > 0 THEN FALSE ELSE hnb]

\* read_raw_bytes that hands the buffered byte out and leaves the slot full
read_raw_bytes_head_keeps(n, hnb, nb) ==
    IF hnb /\ n > 0
    THEN [buf |-> <<nb>>, bytes |-> n - 1, have |-> hnb]
    ELSE [buf |-> <<>>, bytes |-> n, have |-> hnb]

\* read_raw_bytes that hands the buffered byte out and still reads n bytes
read_raw_bytes_head_NoDecrement(n, hnb, nb) ==
    IF hnb /\ n > 0
    THEN [buf |-> <<nb>>, bytes |-> n, have |-> FALSE]
    ELSE [buf |-> <<>>, bytes |-> n, have |-> hnb]

\* read_raw_bytes whose head tests have_next_byte alone: a request for no
\* bytes empties the slot
read_raw_bytes_head_NoCountTest(n, hnb, nb) ==
    IF hnb
    THEN [buf |-> IF n > 0 THEN <<nb>> ELSE <<>>,
          bytes |-> IF n > 0 THEN n - 1 ELSE 0, have |-> FALSE]
    ELSE [buf |-> <<>>, bytes |-> n, have |-> hnb]

\* The head of read_raw_bytes (lines 110-115): a buffered byte is handed out
\* first, and the slot emptied.
read_raw_bytes_head(n, hnb, nb) ==
    IF hnb /\ n > 0
    THEN [buf |-> <<nb>>, bytes |-> n - 1, have |-> FALSE]
    ELSE [buf |-> <<>>, bytes |-> n, have |-> hnb]

\* Where the call o stands once it holds the bytes g.
Outcome(o, g, hnb, nb, le) ==
    CASE o.fn = "peek" -> peek(g, hnb, nb)
      [] o.fn = "next_is_nil" -> next_is_nil(g, hnb, nb)
      [] o.fn = "read_raw_bytes" -> StringBody(g, 1, o.n)
      [] o.fn = "next_nil" -> next_nil(g, 1)
      [] o.fn = "next_array_length" -> next_array_length(g, 1, le)
      [] o.fn = "next_map_length" -> next_map_length(g, 1, le)
      [] o.fn = ">>" -> Extract(o.T, g, 1, le, o.prev)

\* The call o runs on from the point where its buffers hold g and the
\* read_raw_bytes loop has `left` bytes to go, up to its next ::read call or
\* to its end.
RECURSIVE Run(_, _, _, _, _, _)
Run(o, g, left, hnb, nb, le) ==
    IF left > 0
    THEN [pc |-> "read", got |-> g, bytes |-> left, have |-> hnb, nb |-> nb,
          out |-> Need(left, Len(g) + 1)]
    ELSE LET out == Outcome(o, g, hnb, nb, le) IN
         IF out.st = "need"
         THEN LET h == read_raw_bytes_head(out.need, hnb, nb) IN
              IF h.bytes = 0 THEN Run(o, g \o h.buf, 0, h.have, nb, le)
              ELSE Run(o, g \o h.buf, h.bytes, h.have, nb, le)
         ELSE IF o.fn \in PeekFns /\ g # <<>>
              \* peek: read_raw_bytes(&next_byte, 1); have_next_byte = true;
              THEN [pc |-> "idle", got |-> g, bytes |-> 0, have |-> TRUE, nb |-> g[1],
                    out |-> out]
              ELSE [pc |-> "idle", got |-> g, bytes |-> 0, have |-> hnb, nb |-> nb,
                    out |-> out]

\* what a call that ended leaves to its caller
Result(o, out, g, f) ==
    [op |-> o, st |-> out.st, val |-> out.val,
     used |-> IF o.fn \in PeekFns THEN 0 ELSE Len(g),
     msg |-> out.msg, calls |-> out.calls, io |-> f]

\* The step that takes the call o from buffers g0 to the state r of Run.
Settle(o, g0, r, f) ==
    /\ pc' = r.pc
    /\ have_next_byte' = r.have
    /\ next_byte' = r.nb
    /\ delivered' = IF o.fn \in PeekFns THEN delivered
                    ELSE delivered \o SubSeq(r.got, Len(g0) + 1, Len(r.got))
    /\ peek_val' = IF r.pc = "idle" /\ o.fn \in PeekFns THEN r.nb
                   ELSE IF o.fn \notin PeekFns /\ Len(r.got) > Len(g0) THEN -1
                   ELSE peek_val
    /\ IF r.pc = "read"
       THEN /\ op' = o /\ got' = r.got /\ bytes' = r.bytes /\ io' = f
            /\ result' = NoResult
       ELSE /\ op' = NoOp /\ got' = <<>> /\ bytes' = 0 /\ io' = Clean
            /\ result' = Result(o, r.out, r.got, f)

\* An API call is made: it runs to its first ::read call, or to its end.  A
\* read_raw_bytes(buf, n) call starts with the head of read_raw_bytes, for
\* every n.
Begin(fn, T, n, prev) ==
    LET o == [fn |-> fn, T |-> T, n |-> n, prev |-> prev, start |-> LogicalPos,
              hnb |-> have_next_byte]
        h == IF fn = "read_raw_bytes"
             THEN read_raw_bytes_head(n, have_next_byte, next_byte)
             ELSE [buf |-> <<>>, bytes |-> 0, have |-> have_next_byte]
    IN  Settle(o, <<>>, Run(o, h.buf, h.bytes, h.have, next_byte, host_le), Clean)

CallPeek ==
    /\ pc = "idle"
    /\ Begin("peek", <<>>, 0, <<>>)
    /\ UNCHANGED <<stream, host_le, pos>>

CallNextIsNil ==
    /\ pc = "idle"
    /\ Begin("next_is_nil", <<>>, 0, <<>>)
    /\ UNCHANGED <<stream, host_le, pos>>

CallReadRawBytes ==
    /\ pc = "idle"
    /\ \E n \in 0..MaxRawLen : Begin("read_raw_bytes", <<>>, n, <<>>)
    /\ UNCHANGED <<stream, host_le, pos>>

CallNextNil ==
    /\ pc = "idle"
    /\ Begin("next_nil", <<>>, 0, <<>>)
    /\ UNCHANGED <<stream, host_le, pos>>

CallNextArrayLength ==
    /\ pc = "idle"
    /\ Begin("next_array_length", <<>>, 0, <<>>)
    /\ UNCHANGED <<stream, host_le, pos>>

CallNextMapLength ==
    /\ pc = "idle"
    /\ Begin("next_map_length", <<>>, 0, <<>>)
    /\ UNCHANGED <<stream, host_le, pos>>

\* unpacker >> obj, and next<T>() for a default-constructed obj
CallExtract ==
    /\ pc = "idle"
    /\ \E T \in DecodeTypes : \E prev \in PrevContents(T) : Begin(">>", T, 0, prev)
    /\ UNCHANGED <<stream, host_le, pos>>

\* ::read(fd, buf, bytes) returns k > 0: the next k stream bytes are in buf
\* (k < bytes is a short read); buf += k; bytes -= k.
ReadData ==
    /\ pc = "read"
    /\ \E k \in 1..bytes :
        /\ pos + k <= Len(stream)
        /\ pos' = pos + k
        /\ Settle(op, got,
                  Run(op, got \o SubSeq(stream, pos + 1, pos + k), bytes - k,
                      have_next_byte, next_byte, host_le),
                  [io EXCEPT !.short = io.short \/ k < bytes])
    /\ UNCHANGED <<stream, host_le>>

\* an interrupted ::read without the `continue`: buf += -1; bytes -= -1
ReadInterrupted_NoContinue ==
    /\ pc = "read"
    /\ got # <<>>
    /\ io' = [io EXCEPT !.eintr = TRUE]
    /\ got' = SubSeq(got, 1, Len(got) - 1)
    /\ bytes' = bytes + 1
    /\ UNCHANGED <<stream, host_le, pos, have_next_byte, next_byte, pc, op,
                   result, delivered, peek_val>>

\* ::read returns -1 with errno == EINTR: continue, to call ::read again
ReadInterrupted ==
    /\ pc = "read"
    /\ io' = [io EXCEPT !.eintr = TRUE]
    /\ UNCHANGED <<stream, host_le, pos, have_next_byte, next_byte, pc, op, got,
                   bytes, result, delivered, peek_val>>

\* a failed ::read after which the loop calls ::read again
ReadFails_Continue ==
    /\ pc = "read"
    /\ result' = [op |-> op, st |-> "io", val |-> <<>>,
                  used |-> IF op.fn \in PeekFns THEN 0 ELSE Len(got),
                  msg |-> <<"Read from stream failed: ", "strerror(errno)">>,
                  calls |-> <<>>, io |-> Clean]
    /\ UNCHANGED <<stream, host_le, pos, have_next_byte, next_byte, pc, op, got,
                   bytes, io, delivered, peek_val>>

\* ::read returns -1 with another errno:
\* throw unpacker_error("Read from stream failed: " + strerror(errno))
ReadFails ==
    /\ pc = "read"
    /\ result' = [op |-> op, st |-> "io", val |-> <<>>,
                  used |-> IF op.fn \in PeekFns THEN 0 ELSE Len(got),
                  msg |-> <<"Read from stream failed: ", "strerror(errno)">>,
                  calls |-> <<>>, io |-> Clean]
    /\ pc' = "idle" /\ op' = NoOp /\ got' = <<>> /\ bytes' = 0 /\ io' = Clean
    /\ UNCHANGED <<stream, host_le, pos, have_next_byte, next_byte, delivered, peek_val>>

\* ::read returns 0 (end of the stream): buf += 0; bytes -= 0; the loop goes on
ReadEnd ==
    /\ pc = "read"
    /\ pos = Len(stream)
    /\ UNCHANGED vars

Start ==
    /\ pos = 0
    /\ have_next_byte = FALSE
    /\ next_byte = 0
    /\ pc = "idle"
    /\ op = NoOp
    /\ got = <<>>
    /\ bytes = 0
    /\ io = Clean
    /\ result = NoResult
    /\ delivered = <<>>
    /\ peek_val = -1

Init ==
    /\ stream \in Streams
    /\ host_le \in BOOLEAN
    /\ Start

\* No stream of TagStreams holds a multi-byte payload: the byte order of the
\* host cannot show, and one host is taken.
InitTags ==
    /\ stream \in TagStreams
    /\ host_le = TRUE
    /\ Start

Next ==
    \/ CallPeek
    \/ CallNextIsNil
    \/ CallReadRawBytes
    \/ CallNextNil
    \/ CallNextArrayLength
    \/ CallNextMapLength
    \/ CallExtract
    \/ ReadData
    \/ ReadInterrupted
    \/ ReadFails
    \/ ReadEnd

Spec == Init /\ [][Next]_vars

SpecTags == InitTags /\ [][Next]_vars

\* Every tag alone, and the scalars with a payload on both hosts.
InitScalars ==
    /\ stream \in TagStreams \cup ScalarStreams
    /\ host_le \in (IF Len(stream) = 1 THEN {TRUE} ELSE BOOLEAN)
    /\ Start

SpecScalars == InitScalars /\ [][Next]_vars

InitValues ==
    /\ stream \in ValueStreams
    /\ host_le \in BOOLEAN
    /\ Start

SpecValues == InitValues /\ [][Next]_vars

\* Streams that end inside a value: "foo" without its last byte, a uint16
\* and an array of two without their last byte; and one that does not.
TruncatedStreams == { <<163, 102, 111>>, <<205, 1>>, <<146, 1>>, <<161, 107>> }

InitLive ==
    /\ stream \in TruncatedStreams
    /\ host_le \in BOOLEAN
    /\ Start

\* A blocking ::read on a descriptor that has bytes to give returns some in
\* the end: interruptions do not go on forever.  Nothing makes a ::read fail.
SpecLive == InitLive /\ [][Next]_vars /\ WF_vars(ReadData)

-----------------------------------------------------------------------------
(* The byte source: the lookahead slot and read_raw_bytes.                 *)

\* the stream bytes from offset a (exclusive) to offset b (inclusive)
StreamBytes(a, b) == SubSeq(stream, a + 1, b)

\* C1: across any sequence of peek() and read_raw_bytes(n) calls, the bytes
\* read_raw_bytes hands to its callers are, concatenated, a prefix of the
\* stream (in order, none twice, none skipped), and the byte a peek()
\* returned is the first byte the next read_raw_bytes(n >= 1) delivers.
C1_DeliveredIsStreamPrefix ==
    /\ [](delivered = StreamBytes(0, Len(delivered)))
    /\ [][(peek_val # -1 /\ Len(delivered') > Len(delivered))
            => delivered'[Len(delivered) + 1] = peek_val]_vars

\* a read_raw_bytes(n >= 2) returned whose first byte came from the lookahead
\* slot a peek had filled, and whose other bytes came from ::read
C1_Witness ==
    /\ result.op.fn = "read_raw_bytes" /\ result.st = "ok"
    /\ result.op.hnb /\ result.op.n >= 2
    /\ Len(delivered) >= 3

\* C2: read_raw_bytes(n) returns exactly the next n stream bytes, in order,
\* whatever interruptions (EINTR) and short reads its ::read calls meet; an
\* interrupted ::read takes no input and leaves the remaining count and the
\* buffer position as they were.
C2_ReadSurvivesInterruptions ==
    /\ []((result.op.fn = "read_raw_bytes" /\ result.st = "ok")
            => /\ result.val = StreamBytes(result.op.start, result.op.start + result.op.n)
               /\ LogicalPos = result.op.start + result.op.n)
    /\ [][(pc = "read" /\ ~io.eintr /\ io'.eintr)
            => UNCHANGED <<pos, bytes, got, pc, op, delivered, have_next_byte>>]_vars

\* a read_raw_bytes(MaxRawLen) returned after an interruption and a short read
C2_Witness ==
    /\ result.op.fn = "read_raw_bytes" /\ result.st = "ok"
    /\ result.op.n = MaxRawLen
    /\ result.io.eintr /\ result.io.short

\* C3: the bytes taken from the descriptor exceed the bytes handed to callers
\* by exactly one when the lookahead slot is full, and by none when it is
\* empty.
C3_AtMostOneByteAhead ==
    pos - Len(delivered) = (IF have_next_byte THEN 1 ELSE 0)

\* the slot is full after bytes have been delivered
C3_Witness ==
    /\ have_next_byte
    /\ Len(delivered) >= 2
    /\ pos = Len(delivered) + 1

-----------------------------------------------------------------------------
(* Nil.                                                                    *)

\* the tag at the call's logical stream position
TagOf(r) == stream[r.op.start + 1]

\* C4: with the nil tag 0xC0 next on the stream, next_is_nil() returns true
\* and takes no byte beyond that tag, however often it is called; a next_nil()
\* that follows succeeds, consumes that one byte, calls ::read not at all and
\* leaves the slot empty.  With any other tag next, next_is_nil() returns
\* false and consumes nothing.
C4_NilTestThenConsume ==
    /\ []((result.op.fn = "next_is_nil" /\ result.st = "ok")
            => /\ result.val = (TagOf(result) = 192)
               /\ have_next_byte /\ next_byte = TagOf(result)
               /\ pos = result.op.start + 1
               /\ Len(delivered) = result.op.start)
    /\ [][(/\ result.op.fn = "next_is_nil" /\ result.st = "ok" /\ result.val
           /\ (op'.fn = "next_nil" \/ result'.op.fn = "next_nil"))
            => /\ pc' = "idle" /\ result'.st = "ok" /\ result'.used = 1
               /\ pos' = pos /\ ~have_next_byte'
               /\ Len(delivered') = Len(delivered) + 1]_vars

\* next_nil() succeeded on the byte a next_is_nil() or peek() had buffered,
\* with bytes after the nil tag still on the stream
C4_Witness ==
    /\ result.op.fn = "next_nil" /\ result.st = "ok" /\ result.op.hnb
    /\ pos = result.op.start + 1 /\ pos < Len(stream)
    /\ ~have_next_byte

-----------------------------------------------------------------------------
(* Scalars.                                                                *)

\* the calls that decode a value, tag first
DecodeFns == {">>", "next_nil", "next_array_length", "next_map_length"}

\* the call ended by returning or by throwing on its tag (not on a failed read)
Decoded(r) == r.op.fn \in DecodeFns /\ r.st \in {"ok", "error"}

\* the call decoded (or refused) a value for a numeric or boolean T
ScalarCall(r) == r.op.fn = ">>" /\ r.op.T[1] \in ScalarTypes

\* v extended to w bytes with its sign
SignExtend(v, w) == Fill(IF v[1] >= 128 THEN 255 ELSE 0, w - Len(v)) \o v

\* C5: a tag t in 0x00..0x7F decoded as an unsigned integer yields t, and a
\* tag t in 0xE0..0xFF decoded as a signed integer yields t - 256; either
\* consumes the tag only.
C5_FixnumsDecodeToTheirValue ==
    (Decoded(result) /\ ScalarCall(result)) =>
        LET T == result.op.T[1]
            t == TagOf(result)
        IN  /\ (T \in UnsignedTypes /\ t \in 0..127) =>
                  /\ result.st = "ok" /\ result.val = Repr(t, SizeOf(T))
                  /\ result.used = 1 /\ LogicalPos = result.op.start + 1
            /\ (T \in SignedTypes /\ t \in 224..255) =>
                  /\ result.st = "ok" /\ result.val = Repr(t - 256, SizeOf(T))
                  /\ result.used = 1 /\ LogicalPos = result.op.start + 1

\* 0xE0 decoded as an int32_t: -32
C5_Witness ==
    /\ Decoded(result) /\ ScalarCall(result)
    /\ result.op.T[1] = "int32_t" /\ TagOf(result) = 224
    /\ result.val = <<255, 255, 255, 224>>

\* the width of the payload of the signed opcodes 0xD0..0xD3
IntPayloadWidth(t) == CASE t = 208 -> 1 [] t = 209 -> 2 [] t = 210 -> 4 [] t = 211 -> 8

\* C6: the value decoded for a signed opcode 0xD0..0xD3 is the big-endian
\* two's-complement payload, sign-extended to the signed target type, when
\* that type is at least as wide as the payload.
C6_SignedPayloadSignExtended ==
    (Decoded(result) /\ ScalarCall(result) /\ result.st = "ok") =>
        LET T == result.op.T[1]
            t == TagOf(result)
        IN  (T \in SignedTypes /\ t \in 208..211 /\ SizeOf(T) >= IntPayloadWidth(t)) =>
                result.val = SignExtend(StreamBytes(result.op.start + 1,
                                                    result.op.start + 1 + IntPayloadWidth(t)),
                                        SizeOf(T))

\* C7: with the reserved tag 0xC1 first, every decode call (numeric, boolean,
\* string, array and map decode, next_array_length, next_map_length, next_nil)
\* throws an unpacker_error whose message holds the decimal 193, and returns
\* no value.
C7_ReservedTagFails ==
    /\ (Decoded(result) /\ TagOf(result) = 193) =>
          /\ result.st = "error"
          /\ \E k \in 1..Len(result.msg) : result.msg[k] = "193"
          /\ result.val = <<>>
    /\ (pc = "read" /\ op.fn \in DecodeFns /\ got # <<>>) => got[1] # 193

\* the map decode threw on 0xC1
C7_Witness ==
    /\ Decoded(result) /\ TagOf(result) = 193
    /\ result.op.fn = ">>" /\ IsMap(result.op.T)
    /\ result.st = "error"

-----------------------------------------------------------------------------
(* Containers.                                                             *)

\* the big-endian number in the stream bytes from offset a to offset b
BigEndian(a, b) == ToNat(StreamBytes(a, b))

\* the bytes the call consumed
Consumed(r) == StreamBytes(r.op.start, r.op.start + r.used)

\* the calls of the log that decode a value of type T
CallsOf(log, T) == SelectSeq(log, LAMBDA c : c.T = T)

\* the value the call c of the log of r decoded
ValueAt(r, c) == next(c.T, Consumed(r), c.at, host_le).val

VectorCall(r) == r.op.fn = ">>" /\ IsVector(r.op.T)

\* the array length the bytes at offset s encode, and the size of its encoding
ArrayLength(s) ==
    LET t == stream[s + 1] IN
    CASE t \in 144..159 -> [n |-> t % 16, size |-> 1]
      [] t = 220 -> [n |-> BigEndian(s + 1, s + 3), size |-> 3]
      [] t = 221 -> [n |-> BigEndian(s + 1, s + 5), size |-> 5]

\* C9: an array decode takes its length n from the tag (tag & 0x0F for
\* 0x90..0x9F, the big-endian 2 or 4 bytes after 0xDC or 0xDD), makes exactly
\* n element decodes in stream order and returns their n values in that order,
\* whatever the destination held; n = 0 yields the empty sequence with the
\* length encoding alone consumed, and 0x92 0x01 0x02 yields [1, 2].
C9_ArrayDecode ==
    (Decoded(result) /\ VectorCall(result) /\ result.st = "ok") =>
        LET s == result.op.start
            E == ElementType(result.op.T)
            len == ArrayLength(s)
            decodes == CallsOf(result.calls, E)
        IN  /\ TagOf(result) \in (144..159) \cup {220, 221}
            /\ Len(result.val) = len.n
            /\ Len(decodes) = len.n
            /\ len.n > 0 => decodes[1].at = len.size + 1
            /\ \A k \in 1..(len.n - 1) : decodes[k].at < decodes[k + 1].at
            /\ \A k \in 1..len.n : result.val[k] = ValueAt(result, decodes[k])
            /\ len.n = 0 => (result.val = <<>> /\ result.used = len.size)
            /\ (result.op.T = <<"vector", "int32_t">>
                /\ Consumed(result) = <<146, 1, 2>>)
                  => result.val = <<Repr(1, 4), Repr(2, 4)>>

\* 0x92 0x01 0x02 decoded into a vector<int32_t> that held an element
C9_Witness ==
    /\ Decoded(result) /\ VectorCall(result) /\ result.st = "ok"
    /\ result.op.T = <<"vector", "int32_t">> /\ result.op.prev # <<>>
    /\ stream = <<146, 1, 2>>
    /\ result.val = <<<<0, 0, 0, 1>>, <<0, 0, 0, 2>>>>

MapCall(r) == r.op.fn = ">>" /\ IsMap(r.op.T)

\* the map length the bytes at offset s encode, and the size of its encoding
MapLength(s) ==
    LET t == stream[s + 1] IN
    CASE t \in 128..143 -> [n |-> t % 16, size |-> 1]
      [] t = 222 -> [n |-> BigEndian(s + 1, s + 3), size |-> 3]
      [] t = 223 -> [n |-> BigEndian(s + 1, s + 5), size |-> 5]

-----------------------------------------------------------------------------
(* Strings.                                                                *)

StringCall(r) == r.op.fn = ">>" /\ IsString(r.op.T)

\* the string length the bytes at offset s encode, and the size of its encoding
RawLength(s) ==
    LET t == stream[s + 1] IN
    CASE t \in 160..191 -> [n |-> t % 32, size |-> 1]
      [] t = 218 -> [n |-> BigEndian(s + 1, s + 3), size |-> 3]
      [] t = 219 -> [n |-> BigEndian(s + 1, s + 5), size |-> 5]

\* C11: a string decode takes its length L from the tag (tag & 0x1F for
\* 0xA0..0xBF, the big-endian 2 or 4 bytes after 0xDA or 0xDB), consumes
\* exactly the L bytes that follow and returns them, in stream order, as the
\* string, whatever the destination held; 0xA3 'f' 'o' 'o' yields "foo", and
\* L = 0 consumes the length encoding alone.
C11_StringDecode ==
    (Decoded(result) /\ StringCall(result) /\ result.st = "ok") =>
        LET s == result.op.start
            len == RawLength(s)
        IN  /\ TagOf(result) \in (160..191) \cup {218, 219}
            /\ Len(result.val) = len.n
            /\ result.val = StreamBytes(s + len.size, s + len.size + len.n)
            /\ result.used = len.size + len.n
            /\ pos = s + len.size + len.n /\ ~have_next_byte
            /\ Consumed(result) = <<163, 102, 111, 111>> => result.val = <<102, 111, 111>>

\* "foo" decoded into a string that held two other bytes
C11_Witness ==
    /\ Decoded(result) /\ StringCall(result) /\ result.st = "ok"
    /\ result.op.prev = <<122, 122>>
    /\ result.val = <<102, 111, 111>> /\ result.used = 4

-----------------------------------------------------------------------------
(* Failures and frame conditions of the byte source.                       *)

\* C12: a ::read that fails with an errno other than EINTR ends the call in
\* flight at once with the unpacker_error "Read from stream failed: ...": the
\* call issues no further ::read, takes no further input, returns no value,
\* and a peek() (or next_is_nil()) that failed leaves the slot empty.
C12_ReadFailureEndsTheCall ==
    /\ [](result.st = "io" =>
            /\ pc = "idle" /\ op = NoOp
            /\ result.val = <<>>
            /\ result.msg[1] = "Read from stream failed: "
            /\ result.op.fn \in PeekFns => ~have_next_byte)
    /\ [][(pc = "read" /\ result'.st = "io")
            => /\ pc' = "idle"
               /\ UNCHANGED <<pos, have_next_byte, next_byte, delivered>>]_vars

\* a peek() failed after bytes had been delivered: the slot is empty
C12_Witness ==
    /\ result.st = "io" /\ result.op.fn = "peek"
    /\ ~have_next_byte /\ Len(delivered) >= 1

\* C13: consecutive peek() calls return the same byte; the first alone takes
\* a byte from the descriptor, the later ones call ::read not at all and
\* leave the slot as it is.
C13_PeekIdempotent ==
    /\ []((result.op.fn = "peek" /\ result.st = "ok") =>
            /\ result.val = stream[result.op.start + 1]
            /\ have_next_byte /\ next_byte = result.val
            /\ pos = result.op.start + 1)
    /\ [][(/\ result.op.fn = "peek" /\ result.st = "ok"
           /\ (op'.fn = "peek" \/ result'.op.fn = "peek"))
            => /\ pc' = "idle" /\ result'.st = "ok" /\ result'.val = result.val
               /\ UNCHANGED <<pos, have_next_byte, next_byte, delivered>>]_vars

\* a peek() returned the byte an earlier peek() had buffered, after a read
C13_Witness ==
    /\ result.op.fn = "peek" /\ result.st = "ok" /\ result.op.hnb
    /\ Len(delivered) >= 1 /\ result.val = stream[Len(delivered) + 1]

\* the call threw because it does not accept its leading tag
TagRefused(r) ==
    /\ r.st = "error"
    /\ \/ r.op.fn \in {"next_nil", "next_array_length", "next_map_length"}
       \/ ScalarCall(r)
       \/ StringCall(r)

\* C14: a numeric, boolean or string decode, next_array_length,
\* next_map_length or next_nil that throws on its leading tag has consumed
\* that tag and no byte more: nothing after it was read, the slot is empty,
\* and the message names the tag.
C14_RefusedTagConsumed ==
    TagRefused(result) =>
        /\ result.used = 1
        /\ pos = result.op.start + 1 /\ ~have_next_byte
        /\ Len(delivered) = result.op.start + 1
        /\ result.msg[2] = to_string(TagOf(result))

\* next_nil() threw on a byte a peek had buffered, with bytes left behind it
C14_Witness ==
    /\ TagRefused(result) /\ result.op.fn = "next_nil" /\ result.op.hnb
    /\ pos < Len(stream)

\* C15: read_raw_bytes(buf, 0) calls ::read not at all, writes nothing and
\* leaves the slot as it is; a byte the slot holds is the first byte the next
\* read_raw_bytes call delivers.
C15_ZeroReadIsNoOp ==
    /\ [][(pc = "idle" /\ result'.op.fn = "read_raw_bytes" /\ result'.op.n = 0)
            => /\ pc' = "idle" /\ result'.st = "ok" /\ result'.val = <<>>
               /\ UNCHANGED <<pos, have_next_byte, next_byte, delivered, peek_val>>]_vars
    /\ []((result.op.fn = "read_raw_bytes" /\ result.op.n = 0 /\ result.op.hnb)
            => have_next_byte /\ next_byte = stream[result.op.start + 1])
    /\ [][(have_next_byte /\ Len(delivered') > Len(delivered))
            => delivered'[Len(delivered) + 1] = next_byte]_vars

\* read_raw_bytes(buf, 0) returned with the slot full, after a delivery
C15_Witness ==
    /\ result.op.fn = "read_raw_bytes" /\ result.op.n = 0 /\ result.st = "ok"
    /\ result.op.hnb /\ have_next_byte /\ Len(delivered) >= 1

-----------------------------------------------------------------------------
(* Scalars with a payload.                                                 *)

\* the width of the payload of the float opcodes 0xCA, 0xCB
FloatPayloadWidth(t) == CASE t = 202 -> 4 [] t = 203 -> 8

\* C16: the float a decode takes from the opcodes 0xCA / 0xCB has the bits of
\* its 4 / 8 payload bytes read as big-endian, on a host of either byte
\* order.
C16_FloatPayloadBigEndian ==
    (Decoded(result) /\ ScalarCall(result) /\ result.st = "ok"
     /\ TagOf(result) \in {202, 203}) =>
        /\ result.val.from = (IF TagOf(result) = 202 THEN "float" ELSE "double")
        /\ result.val.bits = StreamBytes(result.op.start + 1,
                                         result.op.start + 1 + FloatPayloadWidth(TagOf(result)))

\* the tags a numeric or boolean decode accepts
NumericTags == (((0..127) \cup (224..255)) \cup {194, 195}) \cup ((202..207) \cup (208..211))

\* the width of the payload of the opcodes 0xCA..0xD3
PayloadWidth(t) ==
    CASE t \in {204, 208} -> 1
      [] t \in {205, 209} -> 2
      [] t \in {202, 206, 210} -> 4
      [] t \in {203, 207, 211} -> 8

\* v extended to w bytes with zeros
ZeroExtend(v, w) == Fill(0, w - Len(v)) \o v

\* C17: a numeric or boolean decode returns a value for the tags 0x00..0x7F,
\* 0xE0..0xFF, 0xC2, 0xC3, 0xCA..0xCF, 0xD0..0xD3 and throws for every other
\* tag; past the tag it reads the payload of a tag 0xCA..0xD3 and nothing
\* else.  0xC2 yields 0 and 0xC3 yields 1.  For 0xCC..0xCF the value is the
\* big-endian number in the 1, 2, 4, 8 payload bytes, for an unsigned target
\* at least as wide as the payload (0xCD 0x01 0x00 yields 256).
C17_NumericTags ==
    /\ (Decoded(result) /\ ScalarCall(result)) =>
          LET T == result.op.T[1]
              t == TagOf(result)
              b == t - 194
          IN  /\ result.st = "ok" <=> t \in NumericTags
              /\ (t \in {194, 195} /\ T \notin FloatTypes) =>
                    result.val = Repr(b, SizeOf(T)) /\ result.used = 1
              /\ (t \in {194, 195} /\ T \in FloatTypes) =>
                    result.val.bits = <<b>> /\ result.used = 1
              /\ (t \in 204..207 /\ T \in UnsignedTypes /\ SizeOf(T) >= PayloadWidth(t)) =>
                    /\ result.val = ZeroExtend(StreamBytes(result.op.start + 1,
                                                           result.op.start + 1 + PayloadWidth(t)),
                                               SizeOf(T))
                    /\ result.used = 1 + PayloadWidth(t)
              /\ (T = "uint16_t" /\ Consumed(result) = <<205, 1, 0>>) =>
                    result.val = Repr(256, 2)
    /\ (pc = "read" /\ op.fn = ">>" /\ op.T[1] \in ScalarTypes /\ got # <<>>) =>
          /\ got[1] \in 202..211
          /\ Len(got) + bytes = 1 + PayloadWidth(got[1])

\* 0xCD 0x01 0x00 decoded as a uint32_t on a little-endian host: 256
C17_Witness ==
    /\ Decoded(result) /\ ScalarCall(result) /\ result.st = "ok"
    /\ host_le /\ result.op.T = <<"uint32_t">> /\ stream = <<205, 1, 0>>
    /\ result.val = <<0, 0, 1, 0>>

-----------------------------------------------------------------------------
(* Values in sequence.                                                     *)

RECURSIVE EncodingEnd(_, _)
RECURSIVE EncodingsEnd(_, _)
RECURSIVE RepeatedEnd(_, _, _)

\* the offset after the value of type T whose encoding starts at offset s
EncodingEnd(T, s) ==
    CASE IsVector(T) ->
           RepeatedEnd(<<ElementType(T)>>, s + ArrayLength(s).size, ArrayLength(s).n)
      [] IsMap(T) ->
           RepeatedEnd(<<KeyType(T), MappedType(T)>>, s + MapLength(s).size, MapLength(s).n)
      [] IsString(T) -> s + RawLength(s).size + RawLength(s).n
      [] OTHER -> IF stream[s + 1] \in 202..211 THEN s + 1 + PayloadWidth(stream[s + 1])
                  ELSE s + 1

\* the offset after values of the types Ts, one after the other from offset s
EncodingsEnd(Ts, s) ==
    IF Ts = <<>> THEN s ELSE EncodingsEnd(Tail(Ts), EncodingEnd(Head(Ts), s))

\* the offset after n such groups of values
RepeatedEnd(Ts, s, n) ==
    IF n = 0 THEN s ELSE RepeatedEnd(Ts, EncodingsEnd(Ts, s), n - 1)

-----------------------------------------------------------------------------
(* Termination.                                                            *)

\* C18: every call that stands at a ::read ends, by returning or by throwing,
\* also when the stream ends before the bytes it asked for have come.
C18_ReadTerminates == (pc = "read") ~> (pc = "idle")

====
